---- MODULE Spec2Model ----
(***************************************************************************)
(* Deferred network reconciliation: the Juniper switch driver              *)
(* (hil/ext/switches/juniper.py), the networking server loop               *)
(* (haas/cli.py: serve_networks) and the journal sweep it drives.          *)
(***************************************************************************)
EXTENDS Integers, Sequences, FiniteSets, TLC

\* ------------------------------------------------------------------------
\* Bounds of the model
\* ------------------------------------------------------------------------
\* a rejected statement of a `set` payload is one of the first MaxStmts
MaxStmts == 5
\* number of actions the API layer appends to the journal
MaxActions == 2

\* ------------------------------------------------------------------------
\* Values
\* ------------------------------------------------------------------------
VlanIds == {"100", "200"}
DefaultVlan == "default"
\* str(None): the driver formats a missing native VLAN with str()
NoneStr == "None"
Ports == {"p0", "p1"}
Members == VlanIds \cup {DefaultVlan}

\* channel strings, as the tokens re.match(r'vlan/(\d+)') sees them
NativeChannel == <<"vlan/", "native">>
TaggedChannel(v) == <<"vlan/", v>>
Channels ==
    {NativeChannel} \cup {TaggedChannel(v) : v \in VlanIds}
        \cup {<<"vlan/", "100", "x">>, <<"vlan/", "x">>}
NetworkIds == VlanIds \cup {NoneStr}

\* ------------------------------------------------------------------------
\* The device: committed configuration of one interface
\* ------------------------------------------------------------------------
\* jinja template junos/jinja_templates/default_port_config.j2
default_port_config ==
    [disabled |-> TRUE, trunk_mode |-> FALSE,
     native_vlan |-> NoneStr, vlans |-> {DefaultVlan}]

\* an interface with no configuration at all ("delete interfaces <port>")
NoIfaceConfig ==
    [disabled |-> FALSE, trunk_mode |-> FALSE,
     native_vlan |-> NoneStr, vlans |-> {}]

\* loading the template merges it into the candidate
LoadTemplate(c) ==
    [c EXCEPT !.disabled = TRUE, !.vlans = @ \cup default_port_config.vlans]

Stmt(op, v) == [op |-> op, v |-> v]

\* _str_* : the `set` statements of each command string, in order
str_enable_interface == <<Stmt("delete-disable", NoneStr)>>
str_set_trunk_mode == <<Stmt("set-trunk", NoneStr)>>
str_add_vlan(vlan_id) == <<Stmt("set-member", vlan_id)>>
str_remove_vlan(vlan_id) == <<Stmt("delete-member", vlan_id)>>
str_set_native_vlan(vlan_id) ==
    <<Stmt("set-native-vlan-id", vlan_id), Stmt("set-member", vlan_id)>>
str_remove_native_vlan(vlan_id) ==
    <<Stmt("delete-native-vlan-id", NoneStr), Stmt("delete-member", vlan_id)>>
str_remove_default_vlan == <<Stmt("delete-member", DefaultVlan)>>

\* the device executing one statement on the candidate configuration
ApplyStmt(c, s) ==
    CASE s.op = "delete-disable" -> [c EXCEPT !.disabled = FALSE]
      [] s.op = "set-trunk" -> [c EXCEPT !.trunk_mode = TRUE]
      [] s.op = "set-member" -> [c EXCEPT !.vlans = @ \cup {s.v}]
      [] s.op = "delete-member" -> [c EXCEPT !.vlans = @ \ {s.v}]
      [] s.op = "set-native-vlan-id" -> [c EXCEPT !.native_vlan = s.v]
      [] s.op = "delete-native-vlan-id" -> [c EXCEPT !.native_vlan = NoneStr]

\* "warning: statement not found": a delete of something already absent
StmtNotFound(c, s) ==
    CASE s.op = "delete-disable" -> ~c.disabled
      [] s.op = "delete-member" -> s.v \notin c.vlans
      [] s.op = "delete-native-vlan-id" -> c.native_vlan = NoneStr
      [] OTHER -> FALSE

\* jun.cfg.load(set_command, format="set"): the statements the device does
\* not reject are applied to the candidate, in order
RECURSIVE LoadFrom(_, _, _, _)
LoadFrom(c, stmts, rejected, i) ==
    IF i > Len(stmts) THEN [cand |-> c, warning |-> FALSE]
    ELSE IF i \in rejected THEN LoadFrom(c, stmts, rejected, i + 1)
    ELSE LET rest == LoadFrom(ApplyStmt(c, stmts[i]), stmts, rejected, i + 1)
         IN [cand |-> rest.cand,
             warning |-> rest.warning \/ StmtNotFound(c, stmts[i])]

cfg_load(c, stmts, rejected) ==
    LET r == LoadFrom(c, stmts, rejected, 1)
        err == rejected \cap (1 .. Len(stmts)) # {}
    IN [cand |-> r.cand,
        error |-> IF err THEN "ConfigLoadError"
                  ELSE IF r.warning THEN "warning: statement not found"
                  ELSE NoneStr]

\* ------------------------------------------------------------------------
\* What the environment decides during one driver call
\* ------------------------------------------------------------------------
\* info:     opening the session of _interface_info
\* conn:     opening the session of the load/commit step
\* timeout:  the load RPC times out (RpcTimeoutError)
\* rejected: the statements (or loads, for revert_port) the device rejects
\*           with a ConfigLoadError other than "statement not found"
\* check:    the result of commit_check()
Env(info, conn, timeout, rejected, check) ==
    [info |-> info, conn |-> conn, timeout |-> timeout,
     rejected |-> rejected, check |-> check]

NoFault == Env("ok", TRUE, FALSE, {}, TRUE)

\* one fault per call
Envs ==
    {NoFault,
     Env("ConnectError", TRUE, FALSE, {}, TRUE),
     Env("RpcTimeoutError", TRUE, FALSE, {}, TRUE),
     Env("ok", FALSE, FALSE, {}, TRUE),
     Env("ok", TRUE, TRUE, {}, TRUE),
     Env("ok", TRUE, FALSE, {}, FALSE),
     Env("ok", TRUE, FALSE, 1 .. MaxStmts, TRUE)}
    \cup {Env("ok", TRUE, FALSE, {i}, TRUE) : i \in 1 .. MaxStmts}

\* the outcome of a driver function: the committed configuration it leaves,
\* the value it returns, the exception that leaves it, and what it did
Result(c, ret, exc, trace) ==
    [cfg |-> c, ret |-> ret, exc |-> exc, trace |-> trace]

Has(trace, e) == \E i \in 1 .. Len(trace) : trace[i] = e

\* ------------------------------------------------------------------------
\* Juniper driver (hil/ext/switches/juniper.py)
\* ------------------------------------------------------------------------
\* the statements of a payload as the trace of a call shows them
StmtOps(set_command) == [i \in 1 .. Len(set_command) |-> set_command[i].op]

set_load_config(c, set_command, rejected) ==
    LET l == cfg_load(c, set_command, rejected)
        tr == <<"load">> \o StmtOps(set_command)
    IN IF l.error = NoneStr
       THEN [cand |-> l.cand, ret |-> NoneStr, trace |-> tr]
       ELSE IF l.error = "warning: statement not found"
       THEN [cand |-> l.cand, ret |-> NoneStr,
             trace |-> tr \o <<"warning_ignored">>]
       ELSE [cand |-> l.cand, ret |-> "ConfigLoadError",
             trace |-> tr \o <<"load_error">>]

commit_config(committed, cand, check) ==
    IF check
    THEN Result(cand, NoneStr, NoneStr, <<"commit_check", "commit">>)
    ELSE Result(committed, NoneStr, "ConfigCommitError",
                <<"commit_check", "rollback", "raise">>)

\* _commit_config of the older driver (hil/ext/switches/juniper/juniper.py):
\* `jun.cfg.commit_check`, `jun.cfg.commit` and `jun.cfg.rollback` are
\* attribute accesses, none of them is called
juniper_commit_config(committed, cand, check) ==
    Result(committed, NoneStr, NoneStr, <<>>)

\* mutant of set_commit_config: the session is not closed when the commit
\* validation fails
set_commit_config_leaks(c, set_command, env) ==
    IF ~env.conn
    THEN Result(c, "cannot connect to device", NoneStr, <<"connect_error">>)
    ELSE IF env.timeout
    THEN Result(c, NoneStr, "RpcTimeoutError", <<"open", "timeout", "close">>)
    ELSE LET l == set_load_config(c, set_command, env.rejected)
             k == commit_config(c, l.cand, env.check)
             tr == <<"open">> \o l.trace \o k.trace
         IN IF k.exc = "ConfigCommitError"
            THEN Result(k.cfg, NoneStr, "SystemExit", tr \o <<"exit">>)
            ELSE Result(k.cfg, NoneStr, NoneStr, tr \o <<"close">>)

set_commit_config(c, set_command, env) ==
    IF ~env.conn
    THEN Result(c, "cannot connect to device", NoneStr, <<"connect_error">>)
    ELSE IF env.timeout
    THEN Result(c, NoneStr, "RpcTimeoutError", <<"open", "timeout", "close">>)
    ELSE LET l == set_load_config(c, set_command, env.rejected)
             k == commit_config(c, l.cand, env.check)
             tr == <<"open">> \o l.trace \o k.trace \o <<"close">>
         IN IF k.exc = "ConfigCommitError"
            THEN Result(k.cfg, NoneStr, "SystemExit", tr \o <<"exit">>)
            ELSE Result(k.cfg, NoneStr, NoneStr, tr)

\* mutants of revert_port: the port's configuration is not deleted before
\* the template is loaded; the template is not loaded
revert_port_without_delete(c, env) ==
    LET k == commit_config(c, LoadTemplate(c), env.check)
    IN Result(k.cfg, NoneStr, NoneStr,
              <<"open", "load">> \o k.trace \o <<"close">>)
revert_port_without_template(c, env) ==
    LET k == commit_config(c, NoIfaceConfig, env.check)
    IN Result(k.cfg, NoneStr, NoneStr,
              <<"open", "load">> \o k.trace \o <<"close">>)

revert_port(c, env) ==
    IF ~env.conn
    THEN Result(c, NoneStr, "SystemExit", <<"connect_error", "exit">>)
    ELSE IF env.timeout
    THEN Result(c, NoneStr, NoneStr, <<"open", "timeout", "close", "print">>)
    ELSE LET e1 == 1 \in env.rejected
             e2 == 2 \in env.rejected
             cand1 == IF e1 THEN c ELSE NoIfaceConfig
             cand2 == LoadTemplate(cand1)
             tr1 == IF e1 THEN <<"open", "load", "load_error">>
                    ELSE <<"open", "load">>
         IN IF e2
            THEN Result(c, "err_list", NoneStr,
                        tr1 \o <<"load", "load_error", "close">>)
            ELSE LET k == commit_config(c, cand2, env.check)
                     tr == tr1 \o <<"load">> \o k.trace \o <<"close">>
                 IN IF k.exc = "ConfigCommitError"
                    THEN Result(k.cfg, NoneStr, NoneStr, tr \o <<"print">>)
                    ELSE Result(k.cfg, NoneStr, NoneStr, tr)

\* InterfaceConfigTable view of the committed configuration: `vlans` is a
\* str for one member, a list for several, None for none
interface_info(c, env) ==
    IF env.info = "ConnectError"
    THEN [info |-> c, exc |-> "SystemExit", trace |-> <<"connect_error", "exit">>]
    ELSE IF env.info = "RpcTimeoutError"
    THEN [info |-> c, exc |-> "RpcTimeoutError",
          trace |-> <<"open", "timeout", "close">>]
    ELSE [info |-> c, exc |-> NoneStr, trace |-> <<"open", "get", "close">>]

IsStr(vlans) == Cardinality(vlans) = 1
IsNone(vlans) == vlans = {}

\* the exception of the earlier step, or the later step after it; the
\* callers drop the value the later step returns
Then(i, r) ==
    IF i.exc # NoneStr
    THEN Result(r.cfg, NoneStr, i.exc, i.trace)
    ELSE Result(r.cfg, NoneStr, r.exc, i.trace \o r.trace)

Raise(c, exc) == Result(c, NoneStr, exc, <<>>)

\* shared by _set_native_vlan and _add_vlan_to_trunk
WithPortSetup(c, port_info, command, env) ==
    LET c1 == IF ~port_info.trunk_mode
              THEN str_set_trunk_mode \o command ELSE command
        c2 == IF port_info.disabled
              THEN str_enable_interface \o c1 ELSE c1
    IN IF IsNone(port_info.vlans)
       THEN Raise(c, "TypeError")
       ELSE IF DefaultVlan \in port_info.vlans
       THEN set_commit_config(c, c2 \o str_remove_default_vlan, env)
       ELSE set_commit_config(c, c2, env)

set_native_vlan(c, network_id, env) ==
    LET i == interface_info(c, env)
    IN IF i.exc # NoneStr THEN Then(i, Raise(c, NoneStr))
       ELSE Then(i, WithPortSetup(c, i.info,
                                  str_set_native_vlan(network_id), env))

\* mutant of remove_native_vlan: the last VLAN is deleted incrementally
remove_native_vlan_incremental(c, env) ==
    LET i == interface_info(c, env)
        vlan_id == i.info.native_vlan
    IN IF i.exc # NoneStr THEN Then(i, Raise(c, NoneStr))
       ELSE Then(i, set_commit_config(c, str_remove_native_vlan(vlan_id), env))

remove_native_vlan(c, env) ==
    LET i == interface_info(c, env)
        vlan_id == i.info.native_vlan
    IN IF i.exc # NoneStr THEN Then(i, Raise(c, NoneStr))
       ELSE IF IsStr(i.info.vlans)
       THEN Then(i, revert_port(c, env))
       ELSE Then(i, set_commit_config(c, str_remove_native_vlan(vlan_id), env))

add_vlan_to_trunk(c, vlan_id, env) ==
    LET i == interface_info(c, env)
    IN IF i.exc # NoneStr THEN Then(i, Raise(c, NoneStr))
       ELSE Then(i, WithPortSetup(c, i.info, str_add_vlan(vlan_id), env))

remove_vlan_from_port(c, vlan_id, env) ==
    LET i == interface_info(c, env)
    IN IF i.exc # NoneStr THEN Then(i, Raise(c, NoneStr))
       ELSE IF IsStr(i.info.vlans)
       THEN Then(i, revert_port(c, env))
       ELSE Then(i, set_commit_config(c, str_remove_vlan(vlan_id), env))

\* re.match(r'vlan/(\d+)', channel): anchored at the start only
IsDigits(tok) == tok \in VlanIds
re_match(channel) ==
    IF Len(channel) >= 2 /\ channel[1] = "vlan/" /\ IsDigits(channel[2])
    THEN channel[2] ELSE NoneStr

modify_port(c, channel, network_id, env) ==
    IF channel = NativeChannel
    THEN IF network_id = NoneStr
         THEN remove_native_vlan(c, env)
         ELSE set_native_vlan(c, network_id, env)
    ELSE LET vlan_id == re_match(channel)
         IN IF vlan_id = NoneStr THEN Raise(c, "AssertionError")
            ELSE IF network_id = NoneStr
            THEN remove_vlan_from_port(c, vlan_id, env)
            ELSE IF network_id # vlan_id THEN Raise(c, "AssertionError")
            ELSE add_vlan_to_trunk(c, vlan_id, env)

\* ------------------------------------------------------------------------
\* State
\* ------------------------------------------------------------------------
Nics == {"n0", "n1"}
Switches == {"s0", "s1"}
Workers == {"w1", "w2"}
\* the threads that call into one Ovs driver object
Threads == {"t1", "t2"}
\* resolve_port_for_nic
PortOf(nic) == IF nic = "n0" THEN "p0" ELSE "p1"
\* the two ports belong to one switch, or to one switch each
Wirings ==
    {[port \in Ports |-> "s0"],
     [port \in Ports |-> IF port = "p0" THEN "s0" ELSE "s1"]}

\* the IDs the VLAN allocator manages
PoolIds == VlanIds

\* the ports of stock_switch_0 and the NICs of the free nodes
ApiPorts == {"free_port_0", "free_port_1", "free_node_0_port"}
ApiNics ==
    {<<"free_node_0", "boot-nic">>, <<"free_node_0", "nic-with-port">>,
     <<"free_node_1", "boot-nic">>}
\* port.nic = port_nic: the node's port is attached to its nic-with-port
StockAttachments == {<<"free_node_0_port", <<"free_node_0", "nic-with-port">>>>}
NoApiCall == [op |-> "none", port |-> "", nic |-> <<>>, error |-> NoneStr]
NoClientCall == [method |-> "none", status_code |-> 0, outcome |-> "none"]

VARIABLES
    cfg,        \* committed configuration of every port
    lastCall,   \* the most recent driver call: arguments, prior state, outcome
    repeated,   \* lastCall repeats the arguments of a call that just succeeded
    journal,    \* the network actions, by id
    loop,       \* where serve_networks is: "call", "sweep", "sleep", "exited"
    selected,   \* ids the running sweep selected and has not handed out
    progress,   \* whether the running sweep has made progress
    wpc,        \* each engine worker: "idle", "picked", "claimed", "driver"
    wact,       \* the action id a worker is working on (0: none)
    casLog,     \* per action: Pending -> InProgress attempts won and lost
                \* in the running sweep, since the action was last Pending
    reachable,  \* whether a session to the switch can be opened
    switchOf,   \* the switch every port belongs to
    ovsAttr,    \* Ovs: the command attributes of the driver object
    ovsPc,      \* Ovs: where each thread is in its modify_port call
    ovsArgs,    \* Ovs: the (port, vlan) arguments of each thread's call
    ovsPayload, \* Ovs: the payload each thread built
    ovsCommit,  \* Ovs: the payload each thread's call committed
    response,   \* the ports, result and exception of the most recent
                \* get_port_networks call
    networks,   \* the networks: label, vlan_id, allocated (by the pool)
    pool,       \* VLAN allocator: whether each pool ID is available (Free)
    attachments, \* the <<port, nic>> pairs: the NIC's port reference
    apiCall,    \* the most recent port_connect_nic / port_detach_nic call
    clientCall  \* the most recent client-library call and how it ended

allocVars == <<networks, pool>>
portVars == <<attachments, apiCall>>
apiVars == <<allocVars, portVars, clientCall>>
frameVars ==
    <<switchOf, ovsAttr, ovsPc, ovsArgs, ovsPayload, ovsCommit, response,
      apiVars>>
vars ==
    <<cfg, lastCall, repeated, journal, loop, selected, progress,
      wpc, wact, casLog, reachable, frameVars>>
engineVars ==
    <<journal, loop, selected, progress, wpc, wact, casLog, reachable,
      frameVars>>

\* resolve_switch_for_port
SwitchOf(port) == switchOf[port]

NoCall ==
    [op |-> "none", id |-> 0, port |-> "p0", channel |-> <<>>,
     network_id |-> NoneStr, pre |-> default_port_config,
     ret |-> NoneStr, exc |-> NoneStr, trace |-> <<>>, check |-> TRUE]

\* the events of a call that met a fault
FaultEvents ==
    {"connect_error", "timeout", "load_error", "rollback", "exit"}
Clean(trace) == \A i \in 1 .. Len(trace) : trace[i] \notin FaultEvents

\* the call repeats lastCall, which met no fault and returned normally
Repeats(op, port, channel, network_id) ==
    /\ lastCall.op = op
    /\ lastCall.port = port
    /\ lastCall.channel = channel
    /\ lastCall.network_id = network_id
    /\ Clean(lastCall.trace)
    /\ lastCall.exc = NoneStr

\* check: what commit_check() answers for the candidate of the call, when
\* the call gets as far as asking
Call(op, id, port, channel, network_id, pre, r, env) ==
    [op |-> op, id |-> id, port |-> port, channel |-> channel,
     network_id |-> network_id, pre |-> pre,
     ret |-> r.ret, exc |-> r.exc, trace |-> r.trace,
     check |-> env.check \/ ~Has(r.trace, "load")]

Init ==
    /\ cfg = [p \in Ports |-> default_port_config]
    /\ lastCall = NoCall
    /\ repeated = FALSE
    /\ journal = <<>>
    /\ loop = "call"
    /\ selected = {}
    /\ progress = FALSE
    /\ wpc = [w \in Workers |-> "idle"]
    /\ wact = [w \in Workers |-> 0]
    /\ casLog = [id \in 1 .. MaxActions |-> [won |-> 0, lost |-> 0]]
    /\ reachable = [s \in Switches |-> TRUE]
    /\ switchOf \in Wirings
    /\ ovsAttr = <<>>
    /\ ovsPc = [t \in Threads |-> "idle"]
    /\ ovsArgs = [t \in Threads |-> <<>>]
    /\ ovsPayload = [t \in Threads |-> <<>>]
    /\ ovsCommit = [t \in Threads |-> <<>>]
    /\ response = [ports |-> <<>>, ret |-> <<>>, exc |-> NoneStr]
    /\ networks = {}
    /\ pool = [id \in PoolIds |-> TRUE]
    /\ attachments = StockAttachments
    /\ apiCall = NoApiCall
    /\ clientCall = NoClientCall

\* ------------------------------------------------------------------------
\* The driver on its own: any sequence of modify_port and revert_port calls
\* ------------------------------------------------------------------------
DriverModifyPort(port, channel, network_id, env) ==
    LET r == modify_port(cfg[port], channel, network_id, env)
    IN /\ cfg' = [cfg EXCEPT ![port] = r.cfg]
       /\ lastCall' = Call("modify_port", 0, port, channel, network_id,
                           cfg[port], r, env)
       /\ repeated' = Repeats("modify_port", port, channel, network_id)
       /\ UNCHANGED engineVars

DriverRevertPort(port, env) ==
    LET r == revert_port(cfg[port], env)
    IN /\ cfg' = [cfg EXCEPT ![port] = r.cfg]
       /\ lastCall' = Call("revert_port", 0, port, <<>>, NoneStr,
                           cfg[port], r, env)
       /\ repeated' = Repeats("revert_port", port, <<>>, NoneStr)
       /\ UNCHANGED engineVars

\* the older driver's _commit_config on a session that has loaded the
\* statement adding vlan_id to the port
LegacyCommitConfig(port, vlan_id, check) ==
    LET cand == cfg_load(cfg[port], str_add_vlan(vlan_id), {}).cand
        r == juniper_commit_config(cfg[port], cand, check)
    IN /\ cfg' = [cfg EXCEPT ![port] = r.cfg]
       /\ lastCall' = [op |-> "juniper._commit_config", id |-> 0,
                       port |-> port, channel |-> TaggedChannel(vlan_id),
                       network_id |-> vlan_id, pre |-> cfg[port],
                       ret |-> r.ret, exc |-> r.exc, trace |-> r.trace,
                       check |-> check]
       /\ repeated' = FALSE
       /\ UNCHANGED engineVars

\* the port the driver-only specification exercises
DriverPorts == {"p0"}

DriverNext ==
    \/ \E port \in DriverPorts, vlan_id \in VlanIds, check \in BOOLEAN :
          LegacyCommitConfig(port, vlan_id, check)
    \/ \E port \in DriverPorts, channel \in Channels, network_id \in NetworkIds,
          env \in Envs :
          DriverModifyPort(port, channel, network_id, env)
    \/ \E port \in DriverPorts, env \in Envs : DriverRevertPort(port, env)

\* the driver is the driver of one switch
DriverInit == Init /\ (\A port \in Ports : switchOf[port] = "s0")

DriverSpec == DriverInit /\ [][DriverNext]_vars

\* the same calls against a device that never faults
FaultFreeNext ==
    \/ \E port \in DriverPorts, channel \in Channels,
          network_id \in NetworkIds :
          DriverModifyPort(port, channel, network_id, NoFault)
    \/ \E port \in DriverPorts : DriverRevertPort(port, NoFault)

FaultFreeSpec == DriverInit /\ [][FaultFreeNext]_vars

\* ------------------------------------------------------------------------
\* Ovs driver (hil/ext/switches/ovs.py): threads adding tagged VLANs through
\* one driver object
\* ------------------------------------------------------------------------
\* the command attributes before _set_commands and after _clear_set_commands
NoCommands == <<>>

\* _set_commands(port, vlan_id): the command strings of (port, vlan_id),
\* stored in the attributes of the driver object
set_commands(port, vlan_id) == <<port, vlan_id>>
clear_set_commands == NoCommands

\* modify_port(port, 'vlan/<vlan_id>', vlan_id) enters _add_vlan_to_trunk
OvsModifyPort(t, port, vlan_id) ==
    /\ ovsPc[t] = "idle"
    /\ \A o \in Threads \ {t} : ovsPc[o] # "idle" => ovsArgs[o][1] # port
    /\ ovsPc' = [ovsPc EXCEPT ![t] = "called"]
    /\ ovsArgs' = [ovsArgs EXCEPT ![t] = <<port, vlan_id>>]
    /\ ovsPayload' = [ovsPayload EXCEPT ![t] = NoCommands]
    /\ ovsCommit' = [ovsCommit EXCEPT ![t] = NoCommands]
    /\ UNCHANGED <<cfg, lastCall, repeated, journal, loop, selected,
                   progress, wpc, wact, casLog, reachable, switchOf,
                   response, apiVars, ovsAttr>>

\* self._set_commands(port, vlan_id)
OvsSetCommands(t) ==
    /\ ovsPc[t] = "called"
    /\ ovsAttr' = set_commands(ovsArgs[t][1], ovsArgs[t][2])
    /\ ovsPc' = [ovsPc EXCEPT ![t] = "set"]
    /\ UNCHANGED <<cfg, lastCall, repeated, journal, loop, selected,
                   progress, wpc, wact, casLog, reachable, switchOf,
                   response, apiVars, ovsArgs, ovsPayload, ovsCommit>>

\* add_vlan = self.add_vlan, joined with self.set_trunk_mode,
\* self.enable_interface, self.remove_default_vlan; None + str is a TypeError
OvsBuild(t) ==
    /\ ovsPc[t] = "set"
    /\ ovsPayload' = [ovsPayload EXCEPT ![t] = ovsAttr]
    /\ ovsPc' = [ovsPc EXCEPT ![t] =
                    IF ovsAttr = NoCommands THEN "idle" ELSE "built"]
    /\ UNCHANGED <<cfg, lastCall, repeated, journal, loop, selected,
                   progress, wpc, wact, casLog, reachable, switchOf,
                   response, apiVars, ovsAttr, ovsArgs, ovsCommit>>

\* self._set_commit_config(add_vlan)
OvsCommit(t) ==
    /\ ovsPc[t] = "built"
    /\ ovsCommit' = [ovsCommit EXCEPT ![t] = ovsPayload[t]]
    /\ ovsPc' = [ovsPc EXCEPT ![t] = "committed"]
    /\ UNCHANGED <<cfg, lastCall, repeated, journal, loop, selected,
                   progress, wpc, wact, casLog, reachable, switchOf,
                   response, apiVars, ovsAttr, ovsArgs, ovsPayload>>

\* self._clear_set_commands(); the call returns
OvsClear(t) ==
    /\ ovsPc[t] = "committed"
    /\ ovsAttr' = clear_set_commands
    /\ ovsPc' = [ovsPc EXCEPT ![t] = "idle"]
    /\ UNCHANGED <<cfg, lastCall, repeated, journal, loop, selected,
                   progress, wpc, wact, casLog, reachable, switchOf,
                   response, apiVars, ovsArgs, ovsPayload, ovsCommit>>

OvsNext ==
    \/ \E t \in Threads, port \in Ports, vlan_id \in VlanIds :
          OvsModifyPort(t, port, vlan_id)
    \/ \E t \in Threads : OvsSetCommands(t)
    \/ \E t \in Threads : OvsBuild(t)
    \/ \E t \in Threads : OvsCommit(t)
    \/ \E t \in Threads : OvsClear(t)

OvsSpec == DriverInit /\ [][OvsNext]_vars

\* ------------------------------------------------------------------------
\* The journal and the reconciliation engine
\* ------------------------------------------------------------------------
Ids == 1 .. Len(journal)
Status(id) == journal[id].status
SameNic(a, b) == journal[a].nic = journal[b].nic

\* what the API layer asks for: connect / detach on a channel
Requests ==
    {<<NativeChannel, "100">>, <<NativeChannel, NoneStr>>,
     <<(<<"vlan/", "x">>), "100">>}

\* append_action(nic, network_or_none, channel) -> action_id
AppendAction(nic, req) ==
    /\ Len(journal) < MaxActions
    /\ journal' = Append(journal,
                         [nic |-> nic, channel |-> req[1],
                          network_id |-> req[2], status |-> "Pending"])
    /\ UNCHANGED <<frameVars, cfg, lastCall, repeated,
                   loop, selected, progress,
                   wpc, wact, casLog, reachable>>

\* mutants of Eligible: no per-NIC FIFO; a Failed action does not block
EligibleAnyPending(id) == Status(id) = "Pending"
EligiblePastFailed(id) ==
    /\ Status(id) = "Pending"
    /\ \A j \in Ids :
          (j < id /\ SameNic(j, id)) => Status(j) \in {"Applied", "Failed"}

\* mutant of Eligible: only a Failed action ahead in the queue blocks
EligibleUnlessFailed(id) ==
    /\ Status(id) = "Pending"
    /\ \A j \in Ids : (j < id /\ SameNic(j, id)) => Status(j) # "Failed"

\* sweep step 1: per-NIC FIFO
Eligible(id) ==
    /\ Status(id) = "Pending"
    /\ \A j \in Ids : (j < id /\ SameNic(j, id)) => Status(j) = "Applied"

\* mutants of compare_and_set_status: the write is not guarded by the
\* expected status; the guard also accepts a finished action
set_status_unguarded(id, expected, new) ==
    [ok |-> TRUE, journal |-> [journal EXCEPT ![id].status = new]]
set_status_unless_claimed(id, expected, new) ==
    IF Status(id) # new
    THEN [ok |-> TRUE, journal |-> [journal EXCEPT ![id].status = new]]
    ELSE [ok |-> FALSE, journal |-> journal]

\* compare_and_set_status(action_id, expected, new): one atomic step
compare_and_set_status(id, expected, new) ==
    IF Status(id) = expected
    THEN [ok |-> TRUE, journal |-> [journal EXCEPT ![id].status = new]]
    ELSE [ok |-> FALSE, journal |-> journal]

\* serve_networks: `while deferred.apply_networking(): pass`
StartSweep ==
    /\ loop = "call"
    /\ loop' = "sweep"
    /\ selected' = {id \in Ids : Eligible(id)}
    /\ progress' = FALSE
    /\ casLog' = [id \in 1 .. MaxActions |-> [won |-> 0, lost |-> 0]]
    /\ UNCHANGED <<frameVars, cfg, lastCall, repeated,
                   journal, wpc, wact, reachable>>

\* mutant of EndSweep: serve_networks sleeps after every sweep
EndSweepSleeps ==
    /\ loop = "sweep"
    /\ selected = {}
    /\ \A w \in Workers : wpc[w] = "idle"
    /\ loop' = "sleep"
    /\ UNCHANGED <<frameVars, cfg, lastCall, repeated,
                   journal, selected, progress,
                   wpc, wact, casLog, reachable>>

\* the sweep returns; serve_networks calls it again at once if it made
\* progress and sleeps otherwise
EndSweep ==
    /\ loop = "sweep"
    /\ selected = {}
    /\ \A w \in Workers : wpc[w] = "idle"
    /\ loop' = IF progress THEN "call" ELSE "sleep"
    /\ UNCHANGED <<frameVars, cfg, lastCall, repeated,
                   journal, selected, progress,
                   wpc, wact, casLog, reachable>>

\* sleep(2) returns
Wake ==
    /\ loop = "sleep"
    /\ loop' = "call"
    /\ UNCHANGED <<frameVars, cfg, lastCall, repeated,
                   journal, selected, progress,
                   wpc, wact, casLog, reachable>>

\* a worker takes one of the selected actions
Pick(w) ==
    /\ loop = "sweep"
    /\ wpc[w] = "idle"
    /\ \E id \in selected :
          /\ wact' = [wact EXCEPT ![w] = id]
          /\ wpc' = [wpc EXCEPT ![w] = "picked"]
    /\ UNCHANGED <<frameVars, cfg, lastCall, repeated,
                   journal, loop, selected,
                   progress, casLog, reachable>>

\* sweep step 2: mark it InProgress
Claim(w) ==
    /\ loop = "sweep"
    /\ wpc[w] = "picked"
    /\ LET cas == compare_and_set_status(wact[w], "Pending", "InProgress")
       IN /\ journal' = cas.journal
          /\ wpc' = [wpc EXCEPT ![w] = IF cas.ok THEN "claimed" ELSE "idle"]
          /\ wact' = [wact EXCEPT ![w] = IF cas.ok THEN @ ELSE 0]
          /\ casLog' = [casLog EXCEPT ![wact[w]] =
                           IF cas.ok THEN [@ EXCEPT !.won = @ + 1]
                           ELSE [@ EXCEPT !.lost = @ + 1]]
    /\ selected' = selected \ {wact[w]}
    /\ UNCHANGED <<frameVars, cfg, lastCall, repeated,
                   loop, progress, reachable>>

\* how the engine boundary reads the outcome of the driver call
Retryable == {"ConnectError", "RpcTimeoutError"}
Outcome(r) ==
    IF r.exc = "SystemExit" THEN "exit"
    ELSE IF r.exc \in Retryable THEN "retry"
    ELSE IF r.exc # NoneStr THEN "failed"
    ELSE IF r.ret # NoneStr THEN "failed"
    ELSE "applied"

NewStatus(outcome) ==
    CASE outcome = "applied" -> "Applied"
      [] outcome = "retry" -> "Pending"
      [] outcome = "failed" -> "Failed"
      [] outcome = "exit" -> "InProgress"

\* the faults a call can meet, given whether its switch is reachable; here a
\* rejected load is rejected whole and the RPC that times out is the one of
\* _interface_info (DriverSpec has the other cases)
EnvsOf(switch) ==
    IF reachable[switch]
    THEN {env \in Envs : /\ env.info # "ConnectError"
                         /\ ~env.timeout
                         /\ env.rejected \in {{}, 1 .. MaxStmts}}
    ELSE {Env("ConnectError", TRUE, FALSE, {}, TRUE)}

\* the worker of an action is inside the driver for a switch
InDriver(w) == wpc[w] = "driver"
SwitchOfWorker(w) == SwitchOf(PortOf(journal[wact[w]].nic))

\* mutant of SwitchFree: the driver is entered whatever the others do
SwitchAlwaysFree(w) == TRUE

\* actions destined for the same switch are serialized
SwitchFree(w) ==
    \A o \in Workers \ {w} :
        InDriver(o) => SwitchOfWorker(o) # SwitchOfWorker(w)

\* sweep step 3: resolve the switch and enter its driver
Enter(w) ==
    /\ loop = "sweep"
    /\ wpc[w] = "claimed"
    /\ SwitchFree(w)
    /\ wpc' = [wpc EXCEPT ![w] = "driver"]
    /\ UNCHANGED <<frameVars, cfg, lastCall, repeated,
                   journal, loop, selected,
                   progress, wact, casLog, reachable>>

\* sweep steps 3-5: the driver call and the status it ends in; sys.exit in
\* the driver ends the process that runs serve_networks
ApplyEnv(w, env) ==
    LET id == wact[w]
        a == journal[id]
        port == PortOf(a.nic)
        r == modify_port(cfg[port], a.channel, a.network_id, env)
        outcome == Outcome(r)
    IN /\ cfg' = [cfg EXCEPT ![port] = r.cfg]
       /\ lastCall' = Call("modify_port", id, port, a.channel,
                           a.network_id, cfg[port], r, env)
       /\ repeated' = Repeats("modify_port", port, a.channel, a.network_id)
       /\ journal' = [journal EXCEPT ![id].status = NewStatus(outcome)]
       /\ loop' = IF outcome = "exit" THEN "exited" ELSE loop
       /\ progress' = (progress \/ outcome \in {"applied", "failed"})
       /\ wpc' = [wpc EXCEPT ![w] = IF outcome = "exit" THEN @ ELSE "idle"]
       /\ wact' = [wact EXCEPT ![w] = IF outcome = "exit" THEN @ ELSE 0]
       /\ casLog' = [casLog EXCEPT ![id] =
                        IF outcome = "retry"
                        THEN [won |-> 0, lost |-> 0] ELSE @]
       /\ UNCHANGED <<frameVars, selected, reachable>>

Apply(w) ==
    /\ loop = "sweep"
    /\ InDriver(w)
    /\ \E env \in EnvsOf(SwitchOfWorker(w)) : ApplyEnv(w, env)

\* the driver call against a device that never faults
ApplyQuiet(w) ==
    /\ loop = "sweep"
    /\ InDriver(w)
    /\ ApplyEnv(w, NoFault)

\* the switch that loses its connection from time to time
Flaky == {"s0"}

SwitchDown(s) ==
    /\ reachable[s]
    /\ reachable' = [reachable EXCEPT ![s] = FALSE]
    /\ UNCHANGED <<frameVars, cfg, lastCall, repeated,
                   journal, loop, selected,
                   progress, wpc, wact, casLog>>

SwitchUp(s) ==
    /\ ~reachable[s]
    /\ reachable' = [reachable EXCEPT ![s] = TRUE]
    /\ UNCHANGED <<frameVars, cfg, lastCall, repeated,
                   journal, loop, selected,
                   progress, wpc, wact, casLog>>

Next ==
    \/ \E nic \in Nics, req \in Requests : AppendAction(nic, req)
    \/ StartSweep
    \/ EndSweep
    \/ Wake
    \/ \E w \in Workers : Pick(w)
    \/ \E w \in Workers : Claim(w)
    \/ \E w \in Workers : Enter(w)
    \/ \E w \in Workers : Apply(w)
    \/ \E s \in Flaky : SwitchDown(s)
    \/ \E s \in Flaky : SwitchUp(s)

Spec == Init /\ [][Next]_vars

\* the engine against switches that are always reachable and never fault
QuietNext ==
    \/ \E nic \in Nics, req \in Requests : AppendAction(nic, req)
    \/ StartSweep
    \/ EndSweep
    \/ Wake
    \/ \E w \in Workers : Pick(w)
    \/ \E w \in Workers : Claim(w)
    \/ \E w \in Workers : Enter(w)
    \/ \E w \in Workers : ApplyQuiet(w)

QuietSpec == Init /\ [][QuietNext]_vars

\* ------------------------------------------------------------------------
\* Properties of the engine (checked under Spec)
\* ------------------------------------------------------------------------
Called(call) == call.op = "modify_port" /\ call.id \in Ids

\* C1: for every NIC, no action is Applied, nor has left Pending, while an
\* action with a smaller id on the same NIC is not yet Applied.
C1_PerNicOrder ==
    \A a \in Ids, b \in Ids :
        (a < b /\ SameNic(a, b) /\ Status(b) # "Pending")
            => Status(a) = "Applied"

C1_Witness ==
    \E a \in Ids, b \in Ids :
        /\ a < b /\ SameNic(a, b)
        /\ Status(a) = "Applied" /\ Status(b) = "Applied"

\* C2: of the workers that race compare_and_set_status(Pending ->
\* InProgress) on one action, exactly one succeeds: no action is held by two
\* workers, and an attempt is lost only to an attempt that won.
C2_ExactlyOneClaims ==
    /\ \A id \in 1 .. MaxActions :
          /\ casLog[id].won <= 1
          /\ casLog[id].lost >= 1 => casLog[id].won = 1
    /\ \A w1 \in Workers, w2 \in Workers :
          (w1 # w2 /\ wpc[w1] = "claimed" /\ wpc[w2] = "claimed")
              => wact[w1] # wact[w2]

C2_Witness ==
    \E id \in Ids : casLog[id].won = 1 /\ casLog[id].lost = 1

\* C3: a status changes only along Pending->InProgress, InProgress->Applied,
\* InProgress->Pending and InProgress->Failed; Applied and Failed are never
\* left, and no action is removed from the journal or rewritten.
StatusEdges ==
    {<<"Pending", "InProgress">>, <<"InProgress", "Applied">>,
     <<"InProgress", "Pending">>, <<"InProgress", "Failed">>}

C4_ConnectFailureRequeued ==
    (Called(lastCall) /\ Has(lastCall.trace, "connect_error"))
        => /\ loop # "exited"
           /\ Status(lastCall.id) \notin {"Applied", "Failed"}

\* C5: a driver-level error while applying one action (connect failure, load
\* failure, commit-validation failure) never ends the reconciliation loop.
C5_LoopSurvivesDriverErrors ==
    (Called(lastCall) /\ ~Clean(lastCall.trace)) => loop # "exited"

\* C6: after a non-retryable failure the action is Failed; while a Failed
\* action exists on a NIC no later action of that NIC leaves Pending; and
\* every sweep still selects the Pending head of every other NIC's queue.
NonRetryable(call) ==
    call.exc \notin ({NoneStr, "SystemExit"} \cup Retryable)

HeadOfQueue(b) ==
    /\ Status(b) = "Pending"
    /\ \A j \in Ids : (j < b /\ SameNic(j, b)) => Status(j) = "Applied"

C7_CommitFailureIsFailed ==
    (Called(lastCall) /\ Has(lastCall.trace, "rollback"))
        => /\ cfg[lastCall.port] = lastCall.pre
           /\ lastCall.exc = "ConfigCommitError"
           /\ Status(lastCall.id) = "Failed"

\* ------------------------------------------------------------------------
\* Properties of the driver (checked under DriverSpec)
\* ------------------------------------------------------------------------
TenantVlans(c) == c.vlans \cap VlanIds

\* C8: modify_port called a second time with the same (port, channel,
\* network_id), after a first call that succeeded, succeeds and leaves the
\* committed port state as the first call left it.
C8_ModifyPortIdempotent ==
    (repeated /\ lastCall.op = "modify_port" /\ Clean(lastCall.trace))
        => /\ lastCall.exc = NoneStr
           /\ cfg[lastCall.port] = lastCall.pre

\* C9: no committed port state carries the default VLAN together with a
\* tenant VLAN.
C9_NeverDefaultWithTenant ==
    \A p \in Ports :
        ~(DefaultVlan \in cfg[p].vlans /\ TenantVlans(cfg[p]) # {})

\* C10: removing the last VLAN of a port through modify_port (native
\* removal or tagged removal) leaves the port in the state revert_port
\* produces from the same prior state: trunk mode cleared, native VLAN
\* cleared, no tenant VLAN, default VLAN restored.
RemovesLastVlan(call) ==
    /\ call.op = "modify_port"
    /\ call.network_id = NoneStr
    /\ \E v \in VlanIds :
          /\ call.pre.vlans = {v}
          /\ \/ call.channel = NativeChannel /\ call.pre.native_vlan = v
             \/ call.channel = TaggedChannel(v)

RevertOutcomes(c) == {revert_port(c, env).cfg : env \in Envs}

C10_LastVlanRemovalIsRevert ==
    (RemovesLastVlan(lastCall) /\ Has(lastCall.trace, "get"))
        => /\ cfg[lastCall.port] \in RevertOutcomes(lastCall.pre)
           /\ (Clean(lastCall.trace) /\ lastCall.exc = NoneStr)
                 => /\ cfg[lastCall.port] = revert_port(lastCall.pre, NoFault).cfg
                    /\ ~cfg[lastCall.port].trunk_mode
                    /\ cfg[lastCall.port].native_vlan = NoneStr
                    /\ cfg[lastCall.port].vlans = {DefaultVlan}

C10_Witness ==
    /\ RemovesLastVlan(lastCall)
    /\ lastCall.channel = NativeChannel
    /\ lastCall.pre.trunk_mode
    /\ Clean(lastCall.trace) /\ lastCall.exc = NoneStr
    /\ cfg[lastCall.port] = default_port_config

\* C11: modify_port on a channel 'vlan/<N>' (tagged add or remove) leaves
\* the port's native VLAN id, and the port's membership in that VLAN, as
\* they were before the call, whether or not N was a member of the port.
IsTaggedChannel(channel) == \E v \in VlanIds : channel = TaggedChannel(v)

C11_TaggedKeepsNative ==
    (lastCall.op = "modify_port" /\ IsTaggedChannel(lastCall.channel))
        => /\ cfg[lastCall.port].native_vlan = lastCall.pre.native_vlan
           /\ (lastCall.pre.native_vlan \in cfg[lastCall.port].vlans)
                 <=> (lastCall.pre.native_vlan \in lastCall.pre.vlans)

\* ------------------------------------------------------------------------
\* The connect / detach scenario (checked under QuietSpec)
\* ------------------------------------------------------------------------
IsA1(a) ==
    a.nic = "n0" /\ a.channel = NativeChannel /\ a.network_id = "100"
IsA2(a) ==
    a.nic = "n0" /\ a.channel = NativeChannel /\ a.network_id = NoneStr
Scenario == Len(journal) >= 2 /\ IsA1(journal[1]) /\ IsA2(journal[2])
ClaimedInSweep(id) == casLog[id].won = 1

\* C12: with A1 (n0, connect on vlan/native) and A2 (n0, detach) queued in
\* that order on a factory-default port: a sweep that finds A1 Pending
\* selects A1 and not A2 and ends with A1 Applied, the next sweep selects A2
\* and ends with A2 Applied; the two are never claimed in one sweep, A2
\* never leaves Pending before A1 is Applied, and once A2 is Applied the
\* port is in factory-default state.
C12_ConnectThenDetach ==
    /\ [](Scenario => ~(ClaimedInSweep(1) /\ ClaimedInSweep(2)))
    /\ [](Scenario => (Status(2) # "Pending" => Status(1) = "Applied"))
    /\ []((Scenario /\ Status(2) = "Applied"
              /\ \A id \in Ids : (id > 2 /\ SameNic(id, 2))
                                      => Status(id) = "Pending")
             => cfg["p0"] = default_port_config)
    /\ [][(Scenario /\ loop = "call" /\ loop' = "sweep")
             => /\ Status(1) = "Pending" => (1 \in selected' /\ 2 \notin selected')
                /\ (Status(1) = "Applied" /\ Status(2) = "Pending")
                      => 2 \in selected']_vars
    /\ [][(Scenario /\ loop = "sweep" /\ loop' # "sweep")
             => \A id \in {1, 2} :
                   ClaimedInSweep(id) => Status(id) = "Applied"]_vars

C12_Witness ==
    /\ Scenario
    /\ Status(1) = "Applied" /\ Status(2) = "Applied"
    /\ lastCall.id = 2 /\ lastCall.pre.native_vlan = "100"
    /\ cfg["p0"] = default_port_config
    /\ loop = "sleep"

\* ------------------------------------------------------------------------
\* Properties of single driver calls (checked under DriverSpec)
\* ------------------------------------------------------------------------
Count(trace, e) == Cardinality({i \in 1 .. Len(trace) : trace[i] = e})

IsSetupStmt(e) ==
    e \in {"delete-disable", "set-trunk", "set-member", "delete-member"}

\* the first VLAN (native or tagged) goes onto a disabled access-mode port
\* that carries only default, and the call gets as far as loading
AddsFirstVlan(call) ==
    /\ call.op = "modify_port"
    /\ call.network_id \in VlanIds
    /\ call.channel \in {NativeChannel, TaggedChannel(call.network_id)}
    /\ call.pre = default_port_config
    /\ Has(call.trace, "load")

\* the state the compound operation is to end in
FirstVlanTarget(call) ==
    [disabled |-> FALSE, trunk_mode |-> TRUE,
     native_vlan |-> IF call.channel = NativeChannel
                     THEN call.network_id ELSE NoneStr,
     vlans |-> {call.network_id}]

\* C13: adding the first VLAN to a disabled access-mode port that carries
\* only default issues enable-interface, set-trunk-mode, add-VLAN and
\* remove-default in that order, in one load and at most one commit, and the
\* committed state afterwards is either the prior one or the final one,
\* never a state in between.
C13_FirstVlanIsOneCommit ==
    AddsFirstVlan(lastCall)
        => /\ SelectSeq(lastCall.trace, IsSetupStmt)
                 = <<"delete-disable", "set-trunk", "set-member",
                     "delete-member">>
           /\ Count(lastCall.trace, "load") = 1
           /\ Count(lastCall.trace, "commit") <= 1
           /\ cfg[lastCall.port] \in {lastCall.pre, FirstVlanTarget(lastCall)}

\* C14: a commit is executed only after commit_check was executed on the
\* loaded candidate in the same session and passed; when the candidate does
\* not pass, the commit step executes rollback, raises ConfigCommitError and
\* does not execute commit.
AtCommitStep(call) ==
    call.op = "juniper._commit_config" \/ Has(call.trace, "commit_check")

CommitFollowsCheck(trace) ==
    \A i \in 1 .. Len(trace) :
        trace[i] = "commit"
            => /\ i > 1 /\ trace[i - 1] = "commit_check"
               /\ \E j \in 1 .. i : /\ trace[j] = "load"
                                     /\ \A k \in j .. i : trace[k] # "close"

C14_CommitOnlyAfterCheck ==
    /\ CommitFollowsCheck(lastCall.trace)
    /\ Has(lastCall.trace, "commit") => lastCall.check
    /\ (AtCommitStep(lastCall) /\ ~lastCall.check)
          => /\ Has(lastCall.trace, "rollback")
             /\ Has(lastCall.trace, "raise")
             /\ ~Has(lastCall.trace, "commit")

\* C15: revert_port, from every prior port state, resets the port to the
\* default template: no tenant VLAN, no native VLAN, no trunk mode; a second
\* revert_port leaves the state of the first.
RevertSucceeded(call) ==
    /\ call.op = "revert_port"
    /\ Clean(call.trace) /\ call.exc = NoneStr /\ call.ret = NoneStr

C15_RevertResetsPort ==
    RevertSucceeded(lastCall)
        => /\ cfg[lastCall.port] = default_port_config
           /\ TenantVlans(cfg[lastCall.port]) = {}
           /\ cfg[lastCall.port].native_vlan = NoneStr
           /\ ~cfg[lastCall.port].trunk_mode
           /\ revert_port(cfg[lastCall.port], NoFault).cfg = cfg[lastCall.port]
           /\ repeated => cfg[lastCall.port] = lastCall.pre

C15_Witness ==
    /\ RevertSucceeded(lastCall)
    /\ lastCall.pre.trunk_mode
    /\ lastCall.pre.native_vlan = "100"
    /\ lastCall.pre.vlans = {"100", "200"}
    /\ cfg[lastCall.port] = default_port_config

\* C16: a modify_port whose channel is neither exactly 'vlan/native' nor
\* exactly 'vlan/' followed only by digits ends in a terminal error (not
\* success, not a retryable error) and loads and commits nothing.
WellFormed(channel) ==
    \/ channel = NativeChannel
    \/ Len(channel) = 2 /\ channel[1] = "vlan/" /\ IsDigits(channel[2])

C16_BadChannelRejected ==
    (lastCall.op = "modify_port" /\ ~WellFormed(lastCall.channel))
        => /\ Outcome(lastCall) = "failed"
           /\ ~Has(lastCall.trace, "load")
           /\ ~Has(lastCall.trace, "commit")
           /\ cfg[lastCall.port] = lastCall.pre

\* C17: every session a modify_port or revert_port opens is closed again
\* before the call is over, on every exit path (return, load or commit
\* failure, connect failure, exception, sys.exit); at most one is open at
\* a time.
RECURSIVE OpenSessions(_, _)
OpenSessions(trace, n) ==
    IF n = 0 THEN 0
    ELSE OpenSessions(trace, n - 1)
            + (IF trace[n] = "open" THEN 1
               ELSE IF trace[n] = "close" THEN -1 ELSE 0)

C17_SessionsReleased ==
    lastCall.op \in {"modify_port", "revert_port"}
        => /\ OpenSessions(lastCall.trace, Len(lastCall.trace)) = 0
           /\ \A n \in 0 .. Len(lastCall.trace) :
                 OpenSessions(lastCall.trace, n) \in {0, 1}

C17_Witness ==
    /\ lastCall.op = "modify_port"
    /\ lastCall.exc = "SystemExit"
    /\ Has(lastCall.trace, "rollback")
    /\ Count(lastCall.trace, "open") = 2
    /\ Count(lastCall.trace, "close") = 2

\* ------------------------------------------------------------------------
\* Concurrency (C18 under Spec, C19 under OvsSpec) and the server loop
\* ------------------------------------------------------------------------
\* C18: two actions destined for the same switch are never inside the
\* driver at the same time; actions for different switches may be.
C18_SameSwitchSerialized ==
    \A w1 \in Workers, w2 \in Workers :
        (w1 # w2 /\ InDriver(w1) /\ InDriver(w2))
            => SwitchOfWorker(w1) # SwitchOfWorker(w2)

C18_Witness ==
    /\ \A w \in Workers : InDriver(w)
    /\ \E w1 \in Workers, w2 \in Workers :
          SwitchOfWorker(w1) # SwitchOfWorker(w2)

\* C19: when modify_port calls for different ports run interleaved on one
\* driver object, the payload a call commits is the payload built from its
\* own (port, vlan) arguments.
C19_CommitsOwnPayload ==
    \A t \in Threads :
        ovsCommit[t] # NoCommands => ovsCommit[t] = ovsArgs[t]

\* C20: serve_networks starts the next sweep at once after a sweep that made
\* progress, sleeps only after a sweep that made none, sweeps again after
\* the sleep, and has no way out of its own: with an empty journal it keeps
\* sweeping and sleeping, and the process ends only by a sys.exit raised
\* inside a driver call.
C20_LoopNeverEnds ==
    /\ [][/\ loop = "call" => loop' \in {"call", "sweep"}
          /\ loop = "sleep" => loop' \in {"sleep", "call"}
          /\ (loop = "sweep" /\ loop' = "call") => progress
          /\ (loop = "sweep" /\ loop' = "sleep") => ~progress
          /\ (loop = "sweep" /\ loop' = "exited")
                => lastCall'.exc = "SystemExit"
          /\ loop = "exited" => loop' = "exited"]_vars
    /\ [](loop = "call" => ENABLED StartSweep)
    /\ [](loop = "sleep" => ENABLED Wake)
    /\ []((loop = "sweep" /\ selected = {}
             /\ \A w \in Workers : wpc[w] = "idle") => ENABLED EndSweep)

C20_Witness ==
    /\ loop = "sleep"
    /\ ~progress
    /\ \E id \in Ids : Status(id) = "Applied"

\* ------------------------------------------------------------------------
\* The engine under fair scheduling: serve_networks never stops calling the
\* sweep (`while True`), a started sweep returns, the sleep ends, and every
\* worker that can take its next step takes it. Requests and the state of
\* the connection to a switch are the environment's: no fairness.
\* ------------------------------------------------------------------------
Fairness ==
    /\ WF_vars(StartSweep)
    /\ WF_vars(EndSweep)
    /\ WF_vars(Wake)
    /\ \A w \in Workers :
          /\ WF_vars(Pick(w))
          /\ WF_vars(Claim(w))
          /\ WF_vars(Enter(w))
          /\ WF_vars(Apply(w))

FairSpec == Spec /\ Fairness

IsPending(id) == id \in Ids /\ Status(id) = "Pending"
IsApplied(id) == id \in Ids /\ Status(id) = "Applied"
\* the request is one the driver carries out when nothing goes wrong
WouldApply(id) ==
    LET a == journal[id]
    IN Outcome(modify_port(cfg[PortOf(a.nic)], a.channel, a.network_id,
                           NoFault)) = "applied"
SwitchReachable(id) ==
    id \in Ids => reachable[SwitchOf(PortOf(journal[id].nic))]
NoFailedEarlier(id) ==
    id \in Ids =>
        \A j \in Ids : (j < id /\ SameNic(j, id)) => Status(j) # "Failed"
\* the driver call just made succeeded, unless it could not connect
GoodCall ==
    Called(lastCall) =>
        \/ Outcome(lastCall) = "applied"
        \/ Has(lastCall.trace, "connect_error")

EventuallyApplied ==
    \A id \in 1 .. MaxActions :
        ([]GoodCall /\ []NoFailedEarlier(id) /\ <>[]SwitchReachable(id))
            => []((IsPending(id) /\ WouldApply(id)) => <>IsApplied(id))

\* nothing is left for a sweep to take up or to finish
Quiescent ==
    \A id \in Ids : ~Eligible(id) /\ Status(id) # "InProgress"
StatusesKept ==
    \A id \in Ids : journal'[id].status = journal[id].status
Quiescence == [][Quiescent => StatusesKept]_vars

\* C21: under fair scheduling every Pending action whose switch is
\* eventually always reachable, whose driver calls succeed and whose NIC has
\* no Failed earlier action is eventually Applied; once no action is left to
\* take up, no status changes any more.
C21_DrainsToQuiescence == EventuallyApplied /\ Quiescence

\* the driver call just made on a port of switch s succeeded
GoodCallOn(s) ==
    (Called(lastCall) /\ SwitchOf(lastCall.port) = s)
        => Outcome(lastCall) = "applied"
IsPendingOn(id, s) ==
    /\ IsPending(id)
    /\ WouldApply(id)
    /\ SwitchOf(PortOf(journal[id].nic)) = s

\* C22: while switch s0 stays unreachable, every Pending action of a NIC on
\* the reachable switch s1 (whose driver calls succeed) still reaches
\* Applied: the actions for s0 do not block it.
C22_UnreachableSwitchBlocksNoOther ==
    \A id \in 1 .. MaxActions :
        ((<>[]~reachable["s0"]) /\ []reachable["s1"] /\ []GoodCallOn("s1"))
            => [](IsPendingOn(id, "s1") => <>IsApplied(id))

\* ------------------------------------------------------------------------
\* The device rejects the addition of a tagged VLAN (checked under
\* DriverSpec)
\* ------------------------------------------------------------------------
\* modify_port(port, 'vlan/<N>', N)
IsTaggedAdd(call) ==
    /\ call.op = "modify_port"
    /\ IsTaggedChannel(call.channel)
    /\ call.network_id = re_match(call.channel)
\* the device rejected the load that adds the VLAN
DeviceRejected(call) == Has(call.trace, "load_error")

TimedOut(call) == Has(call.trace, "timeout")
\* the session is closed right after the timeout, nothing else is sent on it
TornDown(trace) ==
    \A i \in 1 .. Len(trace) :
        trace[i] = "timeout" => (i < Len(trace) /\ trace[i + 1] = "close")

\* C24: a modify_port or revert_port in which an operation on the switch
\* times out ends as a retryable failure (the action goes back to Pending),
\* and the session that timed out is closed and not used again.
C24_TimeoutIsRetryable ==
    (lastCall.op \in {"modify_port", "revert_port"} /\ TimedOut(lastCall))
        => /\ Outcome(lastCall) = "retry"
           /\ TornDown(lastCall.trace)

\* ------------------------------------------------------------------------
\* get_port_networks (hil/ext/switches/juniper.py; ovs.py has the same body)
\* ------------------------------------------------------------------------
\* the order in which the interface table lists the members of a port
VlanOrder == <<DefaultVlan, "100", "200">>
\* port_info[port]['vlans'] when it is a list
ListOf(vlans) == SelectSeq(VlanOrder, LAMBDA v : v \in vlans)
\* iterating over a str yields its characters
Chars(v) == IF v = "100" THEN <<"1", "0", "0">> ELSE <<"2", "0", "0">>
\* the only member, when 'vlans' is a str
OnlyVlan(vlans) == CHOOSE v \in vlans : TRUE

\* ('vlan/' + str(vlan), str(vlan)) for every vlan
Entries(seq) == [i \in 1 .. Len(seq) |-> <<(<<"vlan/", seq[i]>>), seq[i]>>]
\* filter(lambda x: x[0] not in ['vlan/default', 'vlan/' + str(native_no)])
FilterOutput(all_output, native_no) ==
    SelectSeq(all_output,
              LAMBDA x : x[1] \notin {<<"vlan/", DefaultVlan>>,
                                      <<"vlan/", native_no>>})

\* the body of the loop for ports[i], ports[i+1], ...; all_output is the
\* list the loop shares between the ports
RECURSIVE PortNetworksFrom(_, _, _, _, _)
PortNetworksFrom(c, ports, i, all_output, resp) ==
    IF i > Len(ports) THEN [ret |-> resp, exc |-> NoneStr]
    ELSE
      LET port == ports[i]
          native_no == c[port].native_vlan
          vlans == c[port].vlans
          Put(out) == [p \in DOMAIN resp \cup {port} |->
                          IF p = port THEN out ELSE resp[p]]
      IN IF vlans = {DefaultVlan}
         THEN PortNetworksFrom(c, ports, i + 1, all_output, Put(<<>>))
         ELSE IF \/ IsNone(vlans) /\ native_no = NoneStr
                 \/ IsStr(vlans) /\ vlans = {native_no}
         THEN PortNetworksFrom(c, ports, i + 1, all_output,
                               Put(<<(<<NativeChannel, native_no>>)>>))
         ELSE IF native_no = NoneStr /\ IsStr(vlans)
         THEN PortNetworksFrom(c, ports, i + 1, all_output,
                               Put(Entries(<<OnlyVlan(vlans)>>)))
         ELSE IF native_no = NoneStr
         THEN LET out == all_output \o Entries(ListOf(vlans))
              IN PortNetworksFrom(c, ports, i + 1, out,
                                  Put(FilterOutput(out, native_no)))
         ELSE IF IsNone(vlans)
         THEN [ret |-> <<>>, exc |-> "TypeError"]
         ELSE LET iter == IF IsStr(vlans) THEN Chars(OnlyVlan(vlans))
                          ELSE ListOf(vlans)
                  out == <<(<<NativeChannel, native_no>>)>> \o Entries(iter)
              IN PortNetworksFrom(c, ports, i + 1, out,
                                  Put(FilterOutput(out, native_no)))

\* mutant of get_port_networks: the ports it reports on are reset
get_port_networks_resetting(c, ports, env) ==
    LET r == PortNetworksFrom(c, ports, 1, <<>>, <<>>)
    IN [cfg |-> [p \in Ports |->
                    IF \E i \in 1 .. Len(ports) : ports[i] = p
                    THEN default_port_config ELSE c[p]],
        ret |-> r.ret, exc |-> r.exc]

\* c: the committed configuration of every port; _interface_info only reads
get_port_networks(c, ports, env) ==
    LET i == interface_info(c[ports[1]], env)
        r == PortNetworksFrom(c, ports, 1, <<>>, <<>>)
    IN IF Len(ports) > 0 /\ i.exc # NoneStr
       THEN [cfg |-> c, ret |-> <<>>, exc |-> i.exc]
       ELSE [cfg |-> c, ret |-> r.ret, exc |-> r.exc]

\* the lists of ports a caller asks about
PortLists == {<<"p0">>, <<"p1">>, <<"p0", "p1">>, <<"p1", "p0">>}
\* what opening the session of _interface_info can meet
InfoEnvs == {env \in Envs : env.conn /\ ~env.timeout /\ env.rejected = {}
                            /\ env.check}

\* no get_port_networks call is the most recent driver call
NoResponse == [ports |-> <<>>, ret |-> <<>>, exc |-> NoneStr]

DriverGetPortNetworks(ports, env) ==
    LET r == get_port_networks(cfg, ports, env)
    IN /\ cfg' = r.cfg
       /\ response' = [ports |-> ports, ret |-> r.ret, exc |-> r.exc]
       /\ lastCall' = [NoCall EXCEPT !.op = "get_port_networks",
                                     !.port = ports[1],
                                     !.exc = r.exc]
       /\ repeated' = FALSE
       /\ UNCHANGED <<journal, loop, selected, progress, wpc, wact, casLog,
                      reachable, switchOf, ovsAttr, ovsPc, ovsArgs,
                      ovsPayload, ovsCommit, apiVars>>

\* modify_port and revert_port on either port, against a device that
\* never faults
PortsModifyPort(port, channel, network_id) ==
    LET r == modify_port(cfg[port], channel, network_id, NoFault)
    IN /\ cfg' = [cfg EXCEPT ![port] = r.cfg]
       /\ lastCall' = Call("modify_port", 0, port, channel, network_id,
                           cfg[port], r, NoFault)
       /\ repeated' = Repeats("modify_port", port, channel, network_id)
       /\ response' = NoResponse
       /\ UNCHANGED <<journal, loop, selected, progress, wpc, wact, casLog,
                      reachable, switchOf, ovsAttr, ovsPc, ovsArgs,
                      ovsPayload, ovsCommit, apiVars>>

PortsRevertPort(port) ==
    LET r == revert_port(cfg[port], NoFault)
    IN /\ cfg' = [cfg EXCEPT ![port] = r.cfg]
       /\ lastCall' = Call("revert_port", 0, port, <<>>, NoneStr,
                           cfg[port], r, NoFault)
       /\ repeated' = Repeats("revert_port", port, <<>>, NoneStr)
       /\ response' = NoResponse
       /\ UNCHANGED <<journal, loop, selected, progress, wpc, wact, casLog,
                      reachable, switchOf, ovsAttr, ovsPc, ovsArgs,
                      ovsPayload, ovsCommit, apiVars>>

\* the channels of well-formed requests
WellFormedChannels ==
    {NativeChannel} \cup {TaggedChannel(v) : v \in VlanIds}

\* the driver of one switch with two ports
PortsNext ==
    \/ \E port \in Ports, channel \in WellFormedChannels,
          network_id \in NetworkIds :
          PortsModifyPort(port, channel, network_id)
    \/ \E port \in Ports : PortsRevertPort(port)
    \/ \E ports \in PortLists, env \in InfoEnvs :
          DriverGetPortNetworks(ports, env)

PortsSpec == DriverInit /\ [][PortsNext]_vars

IsGetPortNetworks(call) == call.op = "get_port_networks"

\* C25: get_port_networks is read-only: whatever the ports asked about and
\* the state of the switch, the committed configuration of every port is
\* the same after the call as before.
C25_GetPortNetworksReadOnly ==
    [][IsGetPortNetworks(lastCall') => cfg' = cfg]_vars

C25_Witness ==
    /\ IsGetPortNetworks(lastCall)
    /\ Len(response.ports) = 2
    /\ \E p \in Ports : TenantVlans(cfg[p]) # {}
    /\ \E p \in Ports : response.exc = NoneStr /\ response.ret[p] # <<>>

\* what the claim says get_port_networks reports for a port in state c
Conforms(out, c) ==
    LET tagged == c.vlans \ {DefaultVlan, c.native_vlan}
        head == IF c.native_vlan # NoneStr THEN 1 ELSE 0
    IN IF c.vlans = {DefaultVlan} THEN out = <<>>
       ELSE /\ Len(out) = head + Cardinality(tagged)
            /\ head = 1 => out[1] = <<NativeChannel, c.native_vlan>>
            /\ \A N \in tagged :
                  \E i \in head + 1 .. Len(out) :
                      out[i] = <<TaggedChannel(N), N>>

\* C26: for each port asked about, get_port_networks returns [] when the
\* port carries only the default VLAN; otherwise ('vlan/native', id) first
\* when a native VLAN is set, followed by exactly one ('vlan/<N>', N) for
\* each tagged VLAN N, the native VLAN and 'default' not among them.
C26_PortNetworksAsConfigured ==
    (IsGetPortNetworks(lastCall) /\ response.exc = NoneStr)
        => \A i \in 1 .. Len(response.ports) :
              Conforms(response.ret[response.ports[i]],
                       cfg[response.ports[i]])

\* ------------------------------------------------------------------------
\* Networks and the VLAN allocator (network create and delete)
\* ------------------------------------------------------------------------
\* everything but the state of the API layer
nonApiVars ==
    <<cfg, lastCall, repeated, journal, loop, selected, progress, wpc,
      wact, casLog, reachable, switchOf, ovsAttr, ovsPc, ovsArgs,
      ovsPayload, ovsCommit, response>>

NetworkLabels == {"pub", "pxe", "runway_pxe"}
\* net_id '' asks the allocator for an ID
AllocateId == ""
\* the IDs an administrator supplies: in the pool's range, or not
ExternalIds == PoolIds \cup {"some-id"}

Network(label, vlan_id, allocated) ==
    [label |-> label, vlan_id |-> vlan_id, allocated |-> allocated]
LabelInUse(label) == \E n \in networks : n.label = label

\* get_new_network_id(): the IDs it may hand out
FreeIds == {id \in PoolIds : pool[id]}
\* "allocate" and "mark allocated" are one atomic step
MarkAllocated(id) == [pool EXCEPT ![id] = FALSE]
\* free_network_id(id)
FreeNetworkId(id) == [pool EXCEPT ![id] = TRUE]

\* network_create(label, creator, access, net_id)
NetworkCreate(label, net_id) ==
    /\ ~LabelInUse(label)
    /\ IF net_id = AllocateId
       THEN \E id \in FreeIds :
               /\ networks' = networks \cup {Network(label, id, TRUE)}
               /\ pool' = MarkAllocated(id)
       ELSE /\ networks' = networks \cup {Network(label, net_id, FALSE)}
            /\ pool' = pool
    /\ UNCHANGED <<nonApiVars, portVars, clientCall>>

\* network_delete(label)
NetworkDelete(label) ==
    \E n \in networks :
        /\ n.label = label
        /\ networks' = networks \ {n}
        /\ pool' = IF n.allocated THEN FreeNetworkId(n.vlan_id) ELSE pool
        /\ UNCHANGED <<nonApiVars, portVars, clientCall>>

AllocNext ==
    \/ \E label \in NetworkLabels, net_id \in {AllocateId} \cup ExternalIds :
          NetworkCreate(label, net_id)
    \/ \E label \in NetworkLabels : NetworkDelete(label)

AllocSpec == DriverInit /\ [][AllocNext]_vars

Holders(id) == {n \in networks : n.vlan_id = id}
AllocatedHolders(id) == {n \in Holders(id) : n.allocated}

\* C27: at every instant no two networks hold the same pool ID: each pool
\* ID is Free, or allocated to exactly one network.
C27_PoolIdHeldOnce ==
    \A id \in PoolIds :
        /\ Cardinality(Holders(id)) <= 1
        /\ pool[id] \/ Cardinality(AllocatedHolders(id)) = 1

\* ------------------------------------------------------------------------
\* Ports and NICs: port_connect_nic and port_detach_nic
\* ------------------------------------------------------------------------
NicsOf(port) == {a[2] : a \in {b \in attachments : b[1] = port}}
PortsOf(nic) == {a[1] : a \in {b \in attachments : b[2] = nic}}

ApiCall(op, port, nic, error) ==
    [op |-> op, port |-> port, nic |-> nic, error |-> error]

\* mutant of connect_error: an attached port is not looked at
connect_error_nic_only(port, nic) ==
    IF PortsOf(nic) # {} THEN "DuplicateError" ELSE NoneStr

\* the checks of port_connect_nic: neither the port nor the NIC is attached
connect_error(port, nic) ==
    IF NicsOf(port) # {} \/ PortsOf(nic) # {}
    THEN "DuplicateError" ELSE NoneStr

\* port_connect_nic(switch, port, node, nic)
PortConnectNic(port, nic) ==
    LET error == connect_error(port, nic)
    IN /\ attachments' = IF error = NoneStr
                         THEN attachments \cup {<<port, nic>>}
                         ELSE attachments
       /\ apiCall' = ApiCall("port_connect_nic", port, nic, error)
       /\ UNCHANGED <<nonApiVars, allocVars, clientCall>>

\* port_detach_nic(switch, port)
PortDetachNic(port) ==
    LET error == IF NicsOf(port) = {} THEN "NotFoundError" ELSE NoneStr
    IN /\ attachments' = {a \in attachments : a[1] # port}
       /\ apiCall' = ApiCall("port_detach_nic", port, <<>>, error)
       /\ UNCHANGED <<nonApiVars, allocVars, clientCall>>

AttachNext ==
    \/ \E port \in ApiPorts, nic \in ApiNics : PortConnectNic(port, nic)
    \/ \E port \in ApiPorts : PortDetachNic(port)

AttachSpec == DriverInit /\ [][AttachNext]_vars

AtMostOneNic == \A port \in ApiPorts : Cardinality(NicsOf(port)) <= 1

\* the call that is just ending was made on a port with a NIC / without one
ConnectOnAttached ==
    apiCall'.op = "port_connect_nic" /\ NicsOf(apiCall'.port) # {}
DetachOnFree ==
    apiCall'.op = "port_detach_nic" /\ NicsOf(apiCall'.port) = {}

\* C28: a port is attached to at most one NIC at any time; port_connect_nic
\* on a port that is already attached fails with a duplicate error and
\* leaves the attachment unchanged, and port_detach_nic on a port with no
\* NIC fails with a not-found error.
C28_PortHasAtMostOneNic ==
    [][/\ AtMostOneNic /\ AtMostOneNic'
       /\ ConnectOnAttached =>
              apiCall'.error = "DuplicateError" /\ attachments' = attachments
       /\ DetachOnFree => apiCall'.error = "NotFoundError"]_vars

\* a port_connect_nic with another NIC was just refused on a port that
\* holds a NIC, while a second port is attached as well
C28_Witness ==
    /\ apiCall.op = "port_connect_nic"
    /\ apiCall.error = "DuplicateError"
    /\ NicsOf(apiCall.port) # {}
    /\ apiCall.nic \notin NicsOf(apiCall.port)
    /\ PortsOf(apiCall.nic) = {}
    /\ Cardinality(attachments) = 2

\* ------------------------------------------------------------------------
\* The client library (class Haas): how a call ends, by HTTP status code
\* ------------------------------------------------------------------------
\* 2xx / 409 / >= 500 / else
NoNotFoundMethods == {"user_create", "project_create"}
\* 2xx / 409 / 404 / else
NoServersideMethods == {"network_create_simple", "project_add_user"}
\* 2xx / 404 / else
NotFoundOnlyMethods ==
    {"network_delete", "user_delete", "project_remove_user", "project_delete"}
\* 2xx / else
PlainMethods == {"list_projects"}
\* 2xx / 409 / 404 / >= 500 / else, returning nothing
FullMethods ==
    {"network_create", "headnode_create", "headnode_delete",
     "project_connect_node", "project_detach_node", "headnode_start",
     "headnode_stop", "node_register", "node_delete", "node_power_cycle",
     "node_register_nic", "node_delete_nic", "headnode_create_hnic",
     "headnode_delete_hnic", "node_detach_network",
     "headnode_connect_network", "headnode_detach_network", "port_register",
     "port_delete", "port_connect_nic", "port_detach_nic", "show_console",
     "start_console", "stop_console"}
\* 2xx / 409 / 404 / >= 500 / else, returning r.json
QueryMethods ==
    {"list_free_nodes", "list_project_nodes", "list_project_networks",
     "show_network", "show_node", "list_project_headnodes", "show_headnode",
     "list_headnode_images"}

ClientMethods ==
    NoNotFoundMethods \cup NoServersideMethods \cup NotFoundOnlyMethods
    \cup PlainMethods \cup FullMethods \cup QueryMethods

\* the status codes a server answers with
StatusCodes ==
    {100, 199, 200, 201, 204, 299, 300, 301, 304, 400, 401, 404, 409, 499,
     500, 503, 599}

ClientErrors ==
    {"DuplicateName", "IncompleteDependency", "ServersideError",
     "UnknownError"}

\* the elif branches a method has
Checks409(method) ==
    method \in NoNotFoundMethods \cup NoServersideMethods \cup FullMethods
               \cup QueryMethods
Checks404(method) ==
    method \in NoServersideMethods \cup NotFoundOnlyMethods \cup FullMethods
               \cup QueryMethods
Checks500(method) ==
    method \in NoNotFoundMethods \cup FullMethods \cup QueryMethods

\* mutant of client_call: the if of the first branch reads status_code < 400
client_call_redirect_ok(method, status_code) ==
    IF 200 <= status_code /\ status_code < 400
    THEN IF method \in PlainMethods \cup QueryMethods
         THEN "return r.json" ELSE "return"
    ELSE IF Checks409(method) /\ status_code = 409 THEN "DuplicateName"
    ELSE IF Checks404(method) /\ status_code = 404
    THEN "IncompleteDependency"
    ELSE IF Checks500(method) /\ 500 <= status_code THEN "ServersideError"
    ELSE "UnknownError"

\* the if / elif / else chain that follows the request in every method
client_call(method, status_code) ==
    IF 200 <= status_code /\ status_code < 300
    THEN IF method \in PlainMethods \cup QueryMethods
         THEN "return r.json" ELSE "return"
    ELSE IF Checks409(method) /\ status_code = 409 THEN "DuplicateName"
    ELSE IF Checks404(method) /\ status_code = 404
    THEN "IncompleteDependency"
    ELSE IF Checks500(method) /\ 500 <= status_code THEN "ServersideError"
    ELSE "UnknownError"

ClientCall(method, status_code) ==
    /\ clientCall' = [method |-> method, status_code |-> status_code,
                      outcome |-> client_call(method, status_code)]
    /\ UNCHANGED <<nonApiVars, allocVars, portVars>>

ClientNext ==
    \E method \in ClientMethods, status_code \in StatusCodes :
        ClientCall(method, status_code)

ClientSpec == DriverInit /\ [][ClientNext]_vars

Returned(call) == call.outcome \in {"return", "return r.json"}
Raised(call) == call.outcome \in ClientErrors

ErrorOf(status_code) ==
    IF status_code = 409 THEN "DuplicateName"
    ELSE IF status_code = 404 THEN "IncompleteDependency"
    ELSE IF 500 <= status_code THEN "ServersideError"
    ELSE "UnknownError"

\* C39: for every client-library method, a response status of 409 raises
\* DuplicateName, 404 raises IncompleteDependency, any status >= 500 raises
\* ServersideError, and any other non-2xx status raises UnknownError.
C39_StatusToException ==
    (/\ clientCall.method \in ClientMethods
     /\ ~(200 <= clientCall.status_code /\ clientCall.status_code < 300))
        => clientCall.outcome = ErrorOf(clientCall.status_code)

\* ------------------------------------------------------------------------
\* The outcome of driver calls that meet a fault
\* ------------------------------------------------------------------------
\* the port's state was read, and the session of the load/commit step (of
\* _set_commit_config or revert_port) could not be opened
ConnectFailedInCommitStep(call) ==
    Has(call.trace, "get") /\ Has(call.trace, "connect_error")

\* C32: modify_port reports success only when the target state has been
\* committed on the switch: if the connection fails during the load/commit
\* step, the call does not return a success outcome and the action is not
\* marked Applied.
C32_SuccessOnlyWhenCommitted ==
    Called(lastCall)
        => /\ Outcome(lastCall) = "applied" => Has(lastCall.trace, "commit")
           /\ ConnectFailedInCommitStep(lastCall)
                  => /\ Outcome(lastCall) # "applied"
                     /\ Status(lastCall.id) # "Applied"

\* C33: if loading the configuration statements of a modify_port fails with
\* an error other than 'statement not found', no commit is executed for
\* that call and the committed configuration is unchanged.
C33_FailedLoadIsNotCommitted ==
    (lastCall.op = "modify_port" /\ Has(lastCall.trace, "load_error"))
        => /\ ~Has(lastCall.trace, "commit")
           /\ cfg[lastCall.port] = lastCall.pre

ReturnedSuccess(call) == call.exc = NoneStr /\ call.ret = NoneStr
LoadOrCheckFailed(call) ==
    Has(call.trace, "load_error") \/ Has(call.trace, "rollback")

\* C34: revert_port is all-or-nothing and reports its outcome: it returns
\* success only if the default template was committed; if either load
\* fails or the commit validation fails, the committed port configuration
\* is unchanged, no partially loaded candidate change is committed, and an
\* error is returned to the caller.
C34_RevertAllOrNothing ==
    lastCall.op = "revert_port"
        => /\ ReturnedSuccess(lastCall)
                  => /\ Has(lastCall.trace, "commit")
                     /\ cfg[lastCall.port] = default_port_config
           /\ LoadOrCheckFailed(lastCall)
                  => /\ cfg[lastCall.port] = lastCall.pre
                     /\ ~Has(lastCall.trace, "commit")
                     /\ ~ReturnedSuccess(lastCall)

\* ------------------------------------------------------------------------
\* Native VLAN (checked under FaultFreeSpec)
\* ------------------------------------------------------------------------
RemovesNative(call) ==
    /\ call.op = "modify_port"
    /\ call.channel = NativeChannel
    /\ call.network_id = NoneStr

\* C35: modify_port(port, 'vlan/native', None) changes only the native
\* VLAN: on a port that has no native VLAN and exactly one tagged VLAN, the
\* tagged VLAN is still a member of the port after the call.
C35_NativeRemovalKeepsTagged ==
    RemovesNative(lastCall)
        => \A v \in TenantVlans(lastCall.pre) :
               v # lastCall.pre.native_vlan => v \in cfg[lastCall.port].vlans

\* what get_port_networks([port]) returns in the committed state
Alone(port) == get_port_networks(cfg, <<port>>, NoFault)

\* C36: the result get_port_networks gives for a port depends only on that
\* port's committed state: it is the same whether the port is queried alone
\* or in a list with other ports, in any list order.
C36_PortResultIndependent ==
    (IsGetPortNetworks(lastCall) /\ response.exc = NoneStr)
        => \A i \in 1 .. Len(response.ports) :
              LET port == response.ports[i]
              IN /\ Alone(port).exc = NoneStr
                 /\ response.ret[port] = Alone(port).ret[port]

SetsNative(call) ==
    /\ call.op = "modify_port"
    /\ call.channel = NativeChannel
    /\ call.network_id # NoneStr

\* C37: in every committed state reachable by any sequence of modify_port
\* and revert_port calls, a port has at most one native VLAN, and when a
\* native VLAN is set it is among the port's VLAN members; setting native
\* VLAN B on a port whose native VLAN is A leaves B as the only native VLAN.
C37_NativeVlanIsMember ==
    /\ \A p \in Ports :
          /\ cfg[p].native_vlan \in VlanIds \cup {NoneStr}
          /\ cfg[p].native_vlan # NoneStr
                 => cfg[p].native_vlan \in cfg[p].vlans
    /\ (SetsNative(lastCall) /\ lastCall.exc = NoneStr
            /\ lastCall.pre.native_vlan # NoneStr)
           => cfg[lastCall.port].native_vlan = lastCall.network_id

\* ------------------------------------------------------------------------
\* Per-NIC exclusion
\* ------------------------------------------------------------------------
InProgressOn(nic) ==
    {id \in Ids : journal[id].nic = nic /\ Status(id) = "InProgress"}
AtMostOneInProgress == \A nic \in Nics : Cardinality(InProgressOn(nic)) <= 1

\* the NIC of action id has no InProgress action and no Pending action
\* with a lower id
NicIsFree(id) ==
    /\ InProgressOn(journal[id].nic) = {}
    /\ \A j \in Ids : (j < id /\ SameNic(j, id)) => Status(j) # "Pending"

\* C38: at most one action per NIC is InProgress at any time: a Pending
\* action is selected only when its NIC has no InProgress action and no
\* lower-id Pending action.
C38_OneInProgressPerNic ==
    [][/\ AtMostOneInProgress /\ AtMostOneInProgress'
       /\ \A id \in Ids :
             (id \in selected' /\ id \notin selected)
                 => Status(id) = "Pending" /\ NicIsFree(id)
      ]_vars

\* the head of a NIC's queue is InProgress while the sweep runs, and the
\* action queued behind it was not selected
C38_Witness ==
    /\ loop = "sweep"
    /\ \E a \in Ids, b \in Ids :
          /\ a < b /\ SameNic(a, b)
          /\ Status(a) = "InProgress" /\ Status(b) = "Pending"
          /\ b \notin selected
          /\ \A w \in Workers : wact[w] # b

====
